---------------------------- MODULE Spec2Model ----------------------------
(***************************************************************************)
(* A state-machine model of the stack-based bytecode interpreter of        *)
(* src/main.go: Stack, Memory, Storage, gas accounting, the opcode         *)
(* handlers, the driver loop of main and the nested loop of EVM.call.      *)
(*                                                                         *)
(* Representation choices:                                                 *)
(*  - A Value is a record [Type, Value]; Value is a (possibly negative)    *)
(*    integer, as big.Int is.                                              *)
(*  - Go's uint64 is modelled as an unsigned integer of Uint64Bits bits    *)
(*    (the model checker's integers are 32-bit); every uint64 addition     *)
(*    and subtraction of the source wraps modulo U64.                      *)
(*  - A [20]byte address is modelled by its first AddressLen bytes.        *)
(*  - A byte slice is a sequence of numbers 0..255.  A Memory's data is    *)
(*    held sparsely: [len, nz] where nz maps the indices holding a        *)
(*    nonzero byte to that byte; every other index below len reads 0.      *)
(*  - Contract objects live in heap (a sequence); frames and the registry  *)
(*    refer to them by index, as the Go pointers do.                       *)
(*  - A Go run-time panic (slice bounds out of range) is the outcome       *)
(*    "panic".                                                             *)
(***************************************************************************)
EXTENDS Integers, Sequences, FiniteSets, TLC

VARIABLES
    frames,     \* the live EVM structs, root first; the last one is running
    heap,       \* the Contract objects; heap[1] is the root contract
    contracts,  \* the shared registry: address -> index into heap
    context,    \* Context (only GasLimit is read)
    phase,      \* "running" until main's loop has ended, then "complete"
    input,      \* the stack and memory the root frame started with
    last,       \* the step just taken, with the state it started from
    spent,      \* table cost of the opcodes the root loop has charged
    mem,        \* the Memory of the store/load harness
    memLast     \* the harness call just made, with the memory before it

vars == <<frames, heap, contracts, context, phase, input, last, spent, mem, memLast>>

evmVars == <<frames, heap, contracts, context, phase, input, last, spent>>

memVars == <<mem, memLast>>

(***************************************************************************)
(* Program constants and model bounds.                                     *)
(***************************************************************************)
MaxStackDepth == 1024

MaxMemorySize == 33554432

\* width of the model's uint64
Uint64Bits == 28

\* number of address bytes kept
AddressLen == 1

\* largest number of bytes of one Memory.store call of the memory harness
MaxStoreLen == 2

U64 == 2 ^ Uint64Bits

\* magnitudes above ValueCap are not represented (arithmetic guard)
ValueCap == 2 * U64

\* the 256 bits of an EVM word, scaled as uint64 is: one bit more than
\* uint64, the widest magnitude the model represents
Uint256Bits == Uint64Bits + 1

NoErr == "nil"

Panic == "panic"

(***************************************************************************)
(* Helpers for Go built-ins.                                               *)
(***************************************************************************)
Abs(n) == IF n < 0 THEN -n ELSE n

Max(a, b) == IF a < b THEN b ELSE a

\* uint64 arithmetic
Add64(a, b) == (a + b) % U64

Sub64(a, b) == (a - b + U64) % U64

\* (*big.Int).Uint64: the low 64 bits of the absolute value
Uint64(v) == Abs(v) % U64

\* (*big.Int).Bytes: the big-endian bytes of the absolute value
RECURSIVE BigEndian(_)
BigEndian(n) == IF n = 0 THEN <<>> ELSE Append(BigEndian(n \div 256), n % 256)

BigBytes(v) == BigEndian(Abs(v))

\* (*big.Int).SetBytes: the number a big-endian byte string denotes
RECURSIVE SetBytes(_)
SetBytes(b) ==
    IF Len(b) = 0 THEN 0
    ELSE 256 * SetBytes(SubSeq(b, 1, Len(b) - 1)) + b[Len(b)]

\* (*big.Int).String: the decimal text, the key of a Storage map
KeyString(v) == ToString(v)

\* copy(dst[:], src) into a zeroed array of n bytes
CopyInto(n, src) == [i \in 1 .. n |-> IF i <= Len(src) THEN src[i] ELSE 0]

MkValue(t, v) == [Type |-> t, Value |-> v]

U256(v) == MkValue("Uint256", v)

NoValue == MkValue("nil", 0)

(***************************************************************************)
(* Stack (src/main.go 92-107).                                             *)
(***************************************************************************)
\* mutant: a push that does not check the depth
StackPushUnchecked(s, value) == [stack |-> Append(s, value), err |-> NoErr]

StackPush(s, value) ==
    IF Len(s) >= MaxStackDepth
    THEN [stack |-> s, err |-> "stack overflow"]
    ELSE [stack |-> Append(s, value), err |-> NoErr]

StackPop(s) ==
    IF Len(s) = 0
    THEN [stack |-> s, value |-> NoValue, err |-> "stack underflow"]
    ELSE [stack |-> SubSeq(s, 1, Len(s) - 1), value |-> s[Len(s)], err |-> NoErr]

\* n successive pops, as the handlers write them; vals[1] is the first popped
RECURSIVE PopN(_, _)
PopN(s, n) ==
    IF n = 0 THEN [stack |-> s, vals |-> <<>>, err |-> NoErr]
    ELSE LET p == StackPop(s) IN
         IF p.err # NoErr THEN [stack |-> p.stack, vals |-> <<>>, err |-> p.err]
         ELSE LET r == PopN(p.stack, n - 1) IN
              [stack |-> r.stack, vals |-> <<p.value>> \o r.vals, err |-> r.err]

(***************************************************************************)
(* Memory (src/main.go 110-129).                                           *)
(***************************************************************************)
EmptyMemory == [len |-> 0, nz |-> <<>>]

ByteAt(m, i) == IF i \in DOMAIN m.nz THEN m.nz[i] ELSE 0

\* the slice m.data[lo:hi]
Slice(m, lo, hi) == [i \in 1 .. (hi - lo) |-> ByteAt(m, lo + i - 1)]

\* make([]byte, newSize); copy(newData, m.data)
Grow(m, newSize) == [len |-> newSize, nz |-> m.nz]

\* the copy of value into m, starting at offset
CopyAt(m, offset, value) ==
    LET written == {offset + i - 1 : i \in 1 .. Len(value)}
        keep    == {i \in DOMAIN m.nz : i \notin written}
        set     == {i \in written : value[i - offset + 1] # 0}
    IN [len |-> m.len,
        nz  |-> [i \in keep \cup set |->
                    IF i \in written THEN value[i - offset + 1] ELSE m.nz[i]]]

\* mutant: copy(m.data, value), the offset forgotten
OverwriteFromStart(m, offset, value) == CopyAt(m, 0, value)

\* copy(m.data[offset:], value)
Overwrite(m, offset, value) == CopyAt(m, offset, value)

MemStore(m, offset, value) ==
    LET end == Add64(offset, Len(value)) IN
    IF end > MaxMemorySize
    THEN [mem |-> m, err |-> "memory size exceeded"]
    ELSE LET grown == IF m.len < end THEN Grow(m, end) ELSE m IN
         IF offset > grown.len
         THEN [mem |-> grown, err |-> Panic]
         ELSE [mem |-> Overwrite(grown, offset, value), err |-> NoErr]

MemLoad(m, offset, size) ==
    LET end == Add64(offset, size) IN
    IF end > m.len
    THEN [data |-> <<>>, err |-> "memory access out of bounds"]
    ELSE IF offset > end
         THEN [data |-> <<>>, err |-> Panic]
         ELSE [data |-> Slice(m, offset, end), err |-> NoErr]

(***************************************************************************)
(* Gas (src/main.go 498-504).                                              *)
(***************************************************************************)
\* mutant: nothing is charged
useGasFree(gas, cost) == [gas |-> gas, err |-> NoErr]

\* mutant: a rejected charge takes what gas is left
useGasDrain(gas, cost) ==
    IF gas < cost
    THEN [gas |-> 0, err |-> "out of gas"]
    ELSE [gas |-> gas - cost, err |-> NoErr]

\* mutant: an accepted charge is deducted twice
useGasTwice(gas, cost) ==
    IF gas < cost
    THEN [gas |-> gas, err |-> "out of gas"]
    ELSE [gas |-> gas - cost - cost, err |-> NoErr]

useGas(gas, cost) ==
    IF gas < cost
    THEN [gas |-> gas, err |-> "out of gas"]
    ELSE [gas |-> gas - cost, err |-> NoErr]

(***************************************************************************)
(* Contracts, frames and handler results.                                  *)
(***************************************************************************)
\* Contract{Address, Code, Storage} (src/main.go 58-62)
Contract(address, code, storage) ==
    [Address |-> address, Code |-> code, Storage |-> storage]

\* make(Storage)
EmptyStorage == <<>>

ZeroAddress == [i \in 1 .. AddressLen |-> 0]

\* sha256.New().Sum(nil): the SHA-256 digest of the empty input
Sha256Empty ==
    <<227, 176, 196, 66, 152, 252, 28, 20, 154, 251, 244, 200, 153, 111, 185, 36,
      39, 174, 65, 228, 100, 155, 147, 76, 164, 149, 153, 27, 120, 82, 184, 85>>

\* EVM.createAddress (src/main.go 506-510): ignores both arguments
createAddress(callerAddress, nonce) == CopyInto(AddressLen, Sha256Empty)

\* the EVM struct (src/main.go 65-76), with the err its loop ended on and,
\* for a frame made by CALL, the retOffset/retSize locals of that call
Frame(contract, gas, depth, retOffset, retSize) ==
    [stack |-> <<>>, memory |-> EmptyMemory, contract |-> contract, pc |-> 0,
     gas |-> gas, returnData |-> <<>>, logs |-> <<>>, depth |-> depth,
     err |-> NoErr, retOffset |-> retOffset, retSize |-> retSize]

NoFrame == [depth |-> -1]

\* what a handler hands back: the frame, heap and registry as it left them,
\* its error, and for CALL the callee frame it built
Ret(st, f, err) ==
    [f |-> f, heap |-> st.heap, contracts |-> st.contracts, err |-> err,
     callee |-> NoFrame]

Code(st) == st.heap[st.f.contract].Code

\* the prologue shared by the handlers: useGas(gasCost), then n pops
ChargePop(f, gasCost, n) ==
    LET g == useGas(f.gas, gasCost) IN
    IF g.err # NoErr
    THEN [f |-> [f EXCEPT !.gas = g.gas], vals |-> <<>>, err |-> g.err]
    ELSE LET p == PopN(f.stack, n) IN
         [f |-> [f EXCEPT !.gas = g.gas, !.stack = p.stack],
          vals |-> p.vals, err |-> p.err]

\* return evm.stack.push(v)
PushResult(st, f, v) ==
    LET r == StackPush(f.stack, v) IN Ret(st, [f EXCEPT !.stack = r.stack], r.err)

(***************************************************************************)
(* The opcode handlers (src/main.go 184-496).                              *)
(***************************************************************************)
\* the closures ExecuteOpcode hands to binaryOperation and compareOperation
\* (src/main.go 137-154), by name
OpAdd(a, b) == a + b

OpMul(a, b) == a * b

OpSub(a, b) == a - b

\* big.Int.Div is Euclidean division: the remainder is never negative
OpDiv(a, b) ==
    IF b = 0 THEN 0
    ELSE IF b > 0 THEN a \div b ELSE -(a \div (-b))

OpLt(a, b) == a < b

OpGt(a, b) == a > b

OpEq(a, b) == a = b

BigOp(op, a, b) ==
    CASE op = "Add" -> OpAdd(a, b)
      [] op = "Mul" -> OpMul(a, b)
      [] op = "Sub" -> OpSub(a, b)
      [] op = "Div" -> OpDiv(a, b)

CmpOp(op, a, b) ==
    CASE op = "Lt" -> OpLt(a, b)
      [] op = "Gt" -> OpGt(a, b)
      [] op = "Eq" -> OpEq(a, b)

\* mutant: the operands are taken in the other order, a from the top
binaryOperationSwapped(st, op, gasCost) ==
    LET c == ChargePop(st.f, gasCost, 2) IN
    IF c.err # NoErr THEN Ret(st, c.f, c.err)
    ELSE PushResult(st, c.f, U256(BigOp(op, c.vals[1].Value, c.vals[2].Value)))

binaryOperation(st, op, gasCost) ==
    LET c == ChargePop(st.f, gasCost, 2) IN
    IF c.err # NoErr THEN Ret(st, c.f, c.err)
    ELSE LET b == c.vals[1]
             a == c.vals[2]
         IN PushResult(st, c.f, U256(BigOp(op, a.Value, b.Value)))

compareOperation(st, op, gasCost) ==
    LET c == ChargePop(st.f, gasCost, 2) IN
    IF c.err # NoErr THEN Ret(st, c.f, c.err)
    ELSE LET b == c.vals[1]
             a == c.vals[2]
         IN IF CmpOp(op, a.Value, b.Value)
            THEN PushResult(st, c.f, U256(1))
            ELSE PushResult(st, c.f, U256(0))

sload(st, gasCost) ==
    LET c == ChargePop(st.f, gasCost, 1) IN
    IF c.err # NoErr THEN Ret(st, c.f, c.err)
    ELSE LET key     == KeyString(c.vals[1].Value)
             storage == st.heap[st.f.contract].Storage
             value   == IF key \in DOMAIN storage THEN storage[key] ELSE U256(0)
         IN PushResult(st, c.f, value)

\* mutant: the write replaces the whole storage by the one slot
sstoreAlone(st, gasCost) ==
    LET c == ChargePop(st.f, gasCost, 2) IN
    IF c.err # NoErr THEN Ret(st, c.f, c.err)
    ELSE [Ret(st, c.f, NoErr) EXCEPT
            !.heap = [st.heap EXCEPT ![st.f.contract].Storage =
                         (KeyString(c.vals[2].Value) :> c.vals[1])]]

sstore(st, gasCost) ==
    LET c == ChargePop(st.f, gasCost, 2) IN
    IF c.err # NoErr THEN Ret(st, c.f, c.err)
    ELSE LET value   == c.vals[1]
             key     == KeyString(c.vals[2].Value)
             storage == st.heap[st.f.contract].Storage
             stored  == [k \in DOMAIN storage \cup {key} |->
                            IF k = key THEN value ELSE storage[k]]
         IN [Ret(st, c.f, NoErr) EXCEPT
                !.heap = [st.heap EXCEPT ![st.f.contract].Storage = stored]]

\* dest.Value.Uint64() - 1
JumpTarget(dest) == Sub64(Uint64(dest.Value), 1)

jump(st, gasCost) ==
    LET c == ChargePop(st.f, gasCost, 1) IN
    IF c.err # NoErr THEN Ret(st, c.f, c.err)
    ELSE Ret(st, [c.f EXCEPT !.pc = JumpTarget(c.vals[1])], NoErr)

jumpi(st, gasCost) ==
    LET c == ChargePop(st.f, gasCost, 2) IN
    IF c.err # NoErr THEN Ret(st, c.f, c.err)
    ELSE LET condition == c.vals[1]
             dest      == c.vals[2]
         IN IF condition.Value # 0
            THEN Ret(st, [c.f EXCEPT !.pc = JumpTarget(dest)], NoErr)
            ELSE Ret(st, c.f, NoErr)

push(st, size, gasCost) ==
    LET g == useGas(st.f.gas, gasCost) IN
    IF g.err # NoErr THEN Ret(st, [st.f EXCEPT !.gas = g.gas], g.err)
    ELSE LET f1 == [st.f EXCEPT !.gas = g.gas] IN
         IF f1.pc + 1 + size > Len(Code(st))
         THEN Ret(st, f1, "push: out of bounds")
         ELSE LET value == SetBytes(SubSeq(Code(st), f1.pc + 2, f1.pc + 1 + size))
                  f2    == [f1 EXCEPT !.pc = Add64(f1.pc, size)]
              IN PushResult(st, f2, U256(value))

dup(st, pos, gasCost) ==
    LET g == useGas(st.f.gas, gasCost) IN
    IF g.err # NoErr THEN Ret(st, [st.f EXCEPT !.gas = g.gas], g.err)
    ELSE LET f1 == [st.f EXCEPT !.gas = g.gas] IN
         IF Len(f1.stack) < pos
         THEN Ret(st, f1, "dup: stack underflow")
         ELSE PushResult(st, f1, f1.stack[Len(f1.stack) - pos + 1])

swap(st, pos, gasCost) ==
    LET g == useGas(st.f.gas, gasCost) IN
    IF g.err # NoErr THEN Ret(st, [st.f EXCEPT !.gas = g.gas], g.err)
    ELSE LET f1 == [st.f EXCEPT !.gas = g.gas]
             n  == Len(f1.stack)
         IN IF n <= pos
            THEN Ret(st, f1, "swap: stack underflow")
            ELSE Ret(st, [f1 EXCEPT !.stack = [f1.stack EXCEPT
                                                  ![n] = f1.stack[n - pos],
                                                  ![n - pos] = f1.stack[n]]],
                     NoErr)

\* LOG0: topicCount is 0 at the only call site, so the topics loop is empty
log(st, topicCount, gasCost) ==
    LET c == ChargePop(st.f, gasCost, 2) IN
    IF c.err # NoErr THEN Ret(st, c.f, c.err)
    ELSE LET size   == c.vals[1]
             offset == c.vals[2]
             l      == MemLoad(c.f.memory, Uint64(offset.Value), Uint64(size.Value))
         IN IF l.err # NoErr THEN Ret(st, c.f, l.err)
            ELSE LET t == PopN(c.f.stack, topicCount)
                     f2 == [c.f EXCEPT !.stack = t.stack]
                 IN IF t.err # NoErr THEN Ret(st, f2, t.err)
                    ELSE Ret(st,
                             [f2 EXCEPT !.logs = Append(@,
                                 [Address |-> st.heap[st.f.contract].Address,
                                  Topics  |-> t.vals,
                                  Data    |-> l.data])],
                             NoErr)

\* what CREATE does once its operands are popped (src/main.go 363-374)
createWith(st, f, value, offset, size) ==
    LET l == MemLoad(f.memory, Uint64(offset.Value), Uint64(size.Value)) IN
    IF l.err # NoErr THEN Ret(st, f, l.err)
    ELSE LET address == createAddress(st.heap[st.f.contract].Address,
                                      Cardinality(DOMAIN st.contracts))
             id      == Len(st.heap) + 1
             r       == StackPush(f.stack, MkValue("Address", SetBytes(address)))
         IN [f         |-> [f EXCEPT !.stack = r.stack],
             heap      |-> Append(st.heap, Contract(address, l.data, EmptyStorage)),
             contracts |-> [a \in DOMAIN st.contracts \cup {address} |->
                              IF a = address THEN id ELSE st.contracts[a]],
             err       |-> r.err,
             callee    |-> NoFrame]

\* mutant: the operands are popped value first, then offset, then size
createValueFirst(st, gasCost) ==
    LET c == ChargePop(st.f, gasCost, 3) IN
    IF c.err # NoErr THEN Ret(st, c.f, c.err)
    ELSE createWith(st, c.f, c.vals[1], c.vals[2], c.vals[3])

create(st, gasCost) ==
    LET c == ChargePop(st.f, gasCost, 3) IN
    IF c.err # NoErr THEN Ret(st, c.f, c.err)
    ELSE LET size   == c.vals[1]
             offset == c.vals[2]
             value  == c.vals[3]
         IN createWith(st, c.f, value, offset, size)

\* mutant: the callee is given the caller's memory
CalleeForSharing(st, f, id, gasLimit, retOffset, retSize) ==
    [Ret(st, f, NoErr) EXCEPT
        !.callee = [Frame(id, Uint64(gasLimit.Value), st.f.depth + 1,
                          Uint64(retOffset.Value), Uint64(retSize.Value))
                       EXCEPT !.memory = f.memory]]

\* the callee frame EVM.call builds (src/main.go 430-439)
CalleeFor(st, f, id, gasLimit, retOffset, retSize) ==
    [Ret(st, f, NoErr) EXCEPT
        !.callee = Frame(id, Uint64(gasLimit.Value), st.f.depth + 1,
                         Uint64(retOffset.Value), Uint64(retSize.Value))]

\* mutant: the registry is consulted before the call data is loaded
callLookupFirst(st, gasCost) ==
    LET c == ChargePop(st.f, gasCost, 7) IN
    IF c.err # NoErr THEN Ret(st, c.f, c.err)
    ELSE LET contractAddress == CopyInto(AddressLen, BigBytes(c.vals[6].Value))
             l == MemLoad(c.f.memory, Uint64(c.vals[2].Value), Uint64(c.vals[1].Value))
         IN IF contractAddress \notin DOMAIN st.contracts
            THEN Ret(st, c.f, "contract not found")
            ELSE IF l.err # NoErr THEN Ret(st, c.f, l.err)
                 ELSE CalleeFor(st, c.f, st.contracts[contractAddress],
                                c.vals[7], c.vals[4], c.vals[3])

\* EVM.call up to the construction of calleeEVM (src/main.go 377-439)
call(st, gasCost) ==
    LET c == ChargePop(st.f, gasCost, 7) IN
    IF c.err # NoErr THEN Ret(st, c.f, c.err)
    ELSE LET argsSize   == c.vals[1]
             argsOffset == c.vals[2]
             retSize    == c.vals[3]
             retOffset  == c.vals[4]
             value      == c.vals[5]
             address    == c.vals[6]
             gasLimit   == c.vals[7]
             l == MemLoad(c.f.memory, Uint64(argsOffset.Value),
                          Uint64(argsSize.Value))
         IN IF l.err # NoErr THEN Ret(st, c.f, l.err)
            ELSE LET contractAddress == CopyInto(AddressLen, BigBytes(address.Value))
                 IN IF contractAddress \notin DOMAIN st.contracts
                    THEN Ret(st, c.f, "contract not found")
                    ELSE CalleeFor(st, c.f, st.contracts[contractAddress],
                                   gasLimit, retOffset, retSize)

returnOp(st, gasCost) ==
    LET c == ChargePop(st.f, gasCost, 2) IN
    IF c.err # NoErr THEN Ret(st, c.f, c.err)
    ELSE LET size   == c.vals[1]
             offset == c.vals[2]
             l      == MemLoad(c.f.memory, Uint64(offset.Value), Uint64(size.Value))
         IN IF l.err # NoErr THEN Ret(st, c.f, l.err)
            ELSE Ret(st, [c.f EXCEPT !.returnData = l.data], NoErr)

revert(st, gasCost) ==
    LET c == ChargePop(st.f, gasCost, 2) IN
    IF c.err # NoErr THEN Ret(st, c.f, c.err)
    ELSE LET size   == c.vals[1]
             offset == c.vals[2]
             l      == MemLoad(c.f.memory, Uint64(offset.Value), Uint64(size.Value))
         IN IF l.err # NoErr THEN Ret(st, c.f, l.err)
            ELSE Ret(st, [c.f EXCEPT !.returnData = l.data], "revert with data")

(***************************************************************************)
(* Opcode dispatch (src/main.go 132-182).                                  *)
(***************************************************************************)
ExecuteOpcode(st, opcode) ==
    CASE opcode = 0   -> Ret(st, st.f, "STOP")
      [] opcode = 1   -> binaryOperation(st, "Add", 3)
      [] opcode = 2   -> binaryOperation(st, "Mul", 5)
      [] opcode = 3   -> binaryOperation(st, "Sub", 3)
      [] opcode = 4   -> binaryOperation(st, "Div", 5)
      [] opcode = 16  -> compareOperation(st, "Lt", 3)
      [] opcode = 17  -> compareOperation(st, "Gt", 3)
      [] opcode = 20  -> compareOperation(st, "Eq", 3)
      [] opcode = 84  -> sload(st, 200)
      [] opcode = 85  -> sstore(st, 20000)
      [] opcode = 86  -> jump(st, 8)
      [] opcode = 87  -> jumpi(st, 10)
      [] opcode = 96  -> push(st, 1, 3)
      [] opcode = 128 -> dup(st, 1, 3)
      [] opcode = 144 -> swap(st, 1, 3)
      [] opcode = 160 -> log(st, 0, 375)
      [] opcode = 240 -> create(st, 32000)
      [] opcode = 241 -> call(st, 40)
      [] opcode = 243 -> returnOp(st, 0)
      [] opcode = 253 -> revert(st, 0)
      [] OTHER        -> Ret(st, st.f, "unknown opcode")

(***************************************************************************)
(* The inputs: bytecode, the driver-prepared stack and memory of the root  *)
(* frame, the gas limit and the registry the execution starts with.        *)
(***************************************************************************)
\* the gas limit of main (src/main.go 517)
MainGasLimit == 1000000

GasChoices == {2, 50, MainGasLimit}

\* the twenty opcodes of ExecuteOpcode and one byte it does not know
OpSet == {0, 1, 2, 3, 4, 16, 17, 20, 84, 85, 86, 87, 96, 128, 144, 160,
          240, 241, 243, 253, 5}

SecondOps == {0, 1, 96}

ShortPrograms == {<<a>> : a \in OpSet} \cup {<<a, b>> : a \in OpSet, b \in SecondOps}

\* the sample program of main (src/main.go 523-528)
MainCode == <<96, 10, 96, 20, 1, 0>>

\* PUSH1 1; DUP1; PUSH1 2; JUMP: fills the stack until DUP1 or PUSH1 overflows
FillCode == <<96, 1, 128, 96, 2, 86>>

\* PUSH1 100; PUSH1 0; PUSH1 0; PUSH1 0; CREATE; PUSH1 0 (x5); CALL; PUSH1 1
CreateCallCode ==
    <<96, 100, 96, 0, 96, 0, 96, 0, 240, 96, 0, 96, 0, 96, 0, 96, 0, 96, 0, 241, 96, 1>>

\* PUSH1 4; JUMP; unknown; unknown; PUSH1 0; JUMP ... : jumps forward, then to 0
JumpCode == <<96, 4, 86, 5, 96, 7, 96, 0, 86>>

\* key 7 := 9; key 8 := 5; SLOAD 7; SLOAD 6; key 7 := 4; SLOAD 7
StoreLoadCode ==
    <<96, 7, 96, 9, 85, 96, 8, 96, 5, 85, 96, 7, 84, 96, 6, 84,
      96, 7, 96, 4, 85, 96, 7, 84>>

\* 7 / (1 - 3); then that / 2; then that < 0; then 0 - that
ArithCode == <<96, 7, 96, 1, 96, 3, 3, 4, 96, 2, 4, 96, 0, 16, 96, 0, 3>>

\* 2 squared four times (65536), times 128 * 64: 2^29 by MUL alone
OverflowCode ==
    <<96, 2, 128, 2, 128, 2, 128, 2, 128, 2, 96, 128, 96, 64, 2, 2>>

\* PUSH1 0; JUMP: a loop that only the gas ends
LoopCode == <<96, 0, 86>>

CuratedPrograms ==
    {MainCode, FillCode, CreateCallCode, JumpCode, StoreLoadCode, ArithCode,
     OverflowCode}

SmallVals == {0, 1, 2}

SmallStacks ==
    {<<>>} \cup {<<U256(a)>> : a \in SmallVals}
           \cup {<<U256(a), U256(b)>> : a, b \in SmallVals}

FilledStack(n) == [i \in 1 .. n |-> U256(1)]

FullStacks == {FilledStack(MaxStackDepth - 1), FilledStack(MaxStackDepth)}

\* operands of LOG0, CREATE, RETURN, REVERT: offsets and sizes, some wrapping
MemVals == {0, 1, 2, U64 - 1, U64}

MemStacks == {<<U256(v), U256(a), U256(b)>> : v \in {0}, a, b \in MemVals}

MemPrograms == {<<160>>, <<240>>, <<243, 96>>, <<253>>}

\* what the driver stored in the root frame's memory before the run: nothing,
\* or the three bytes 7, 0, 9
Mem3 == [len |-> 3, nz |-> (0 :> 7) @@ (2 :> 9)]

\* the number CREATE pushes for the one address createAddress derives
AddrValue == SetBytes(createAddress(ZeroAddress, 0))

\* CALL operands, bottom to top: gasLimit, address, value, retOffset, retSize,
\* argsOffset, argsSize
CallStacks ==
    {<<U256(g), U256(a), U256(0), U256(ro), U256(rs), U256(ao), U256(as)>> :
        g \in {0, 100}, a \in {AddrValue, 5}, ro \in {0, 1}, rs \in {0, 1},
        ao \in {0, U64 - 1}, as \in {0, 1}}

CallPrograms == {<<241>>, <<241, 96, 1>>}

\* a callee of 88 bytes: PUSH1 86; JUMP; ...; STOP at 85, PUSH1 at 86
JumpArena ==
    [i \in 1 .. 88 |-> CASE i = 1 -> 96 [] i = 2 -> 86 [] i = 86 -> 0
                         [] i = 87 -> 96 [] OTHER -> 5]

CalleePrograms ==
    {<<>>, <<0>>, <<243>>, <<253>>, <<1>>, <<96, 86>>, <<96, 128>>, <<96, 5>>,
     <<96, 96, 243>>, <<96, 96, 87>>, <<96, 96, 96, 96, 96, 96, 96, 241>>,
     JumpArena}

\* SSTORE, then CALL of a callee that stores: PUSH1 96; PUSH1 85; SSTORE
StoreCallCode == <<85, 241>>

StoreCallee == <<96, 96, 85>>

\* the CALL operands (gasLimit 30000) under a key 7 and a value 9
StoreCallStack ==
    <<U256(30000), U256(AddrValue), U256(0), U256(0), U256(0), U256(0), U256(0),
      U256(7), U256(9)>>

\* CREATE; PUSH1 0; PUSH1 0; PUSH1 0; CREATE; STOP, started on the operands of
\* the first CREATE: value 0, offset 0, size 1
CreateTwiceCode == <<240, 96, 0, 96, 0, 96, 0, 240, 0>>

CreateTwiceStack == <<U256(0), U256(0), U256(1)>>

\* CALL operands whose gasLimit does not fit a uint64
WideGasStack ==
    <<U256(U64 + 7), U256(AddrValue), U256(0), U256(0), U256(0), U256(0), U256(0)>>

NoRegistry == [code |-> <<>>, present |-> FALSE]

Registries == {NoRegistry} \cup {[code |-> c, present |-> TRUE] : c \in CalleePrograms}

Input(code, stack, gas, memory, registry) ==
    [code |-> code, stack |-> stack, gas |-> gas, memory |-> memory,
     registry |-> registry]

Inputs ==
    {Input(c, s, g, EmptyMemory, NoRegistry) :
        c \in ShortPrograms, s \in SmallStacks, g \in GasChoices}
    \cup {Input(c, <<>>, MainGasLimit, EmptyMemory, NoRegistry) : c \in CuratedPrograms}
    \cup {Input(c, s, MainGasLimit, EmptyMemory, NoRegistry) :
            c \in {<<a>> : a \in OpSet}, s \in FullStacks}
    \cup {Input(c, s, MainGasLimit, m, NoRegistry) :
            c \in MemPrograms, s \in MemStacks, m \in {EmptyMemory, Mem3}}
    \cup {Input(c, s, MainGasLimit, m, r) :
            c \in CallPrograms, s \in CallStacks, m \in {EmptyMemory, Mem3},
            r \in Registries}
    \cup {Input(StoreCallCode, StoreCallStack, MainGasLimit, EmptyMemory,
                [code |-> StoreCallee, present |-> TRUE])}
    \cup {Input(CreateTwiceCode, CreateTwiceStack, MainGasLimit, Mem3, NoRegistry)}
    \cup {Input(LoopCode, <<>>, 50, EmptyMemory, NoRegistry)}
    \cup {Input(<<241>>, WideGasStack, MainGasLimit, EmptyMemory,
                [code |-> <<96, 86>>, present |-> TRUE])}

NoPre == [depth |-> -1]

NoStep == [kind |-> "init", op |-> -1, depth |-> 0, err |-> NoErr, pre |-> NoPre]

NoMemCall == [op |-> "init", offset |-> 0, bytes |-> <<>>, size |-> 0,
              err |-> NoErr, data |-> <<>>, before |-> EmptyMemory]

(***************************************************************************)
(* Init: NewEVM and the wiring of main (src/main.go 79-89, 512-536), for   *)
(* each input.                                                             *)
(***************************************************************************)
NewEVM(gasLimit) == Frame(1, gasLimit, 0, 0, 0)

Init ==
    \E in \in Inputs :
        /\ frames = <<[NewEVM(in.gas) EXCEPT !.stack = in.stack,
                                             !.memory = in.memory]>>
        /\ heap = IF in.registry.present
                  THEN <<Contract(ZeroAddress, in.code, EmptyStorage),
                         Contract(createAddress(ZeroAddress, 0), in.registry.code,
                                  EmptyStorage)>>
                  ELSE <<Contract(ZeroAddress, in.code, EmptyStorage)>>
        /\ contracts = IF in.registry.present
                       THEN (createAddress(ZeroAddress, 0) :> 2)
                       ELSE <<>>
        /\ context = [GasLimit |-> in.gas]
        /\ phase = "running"
        /\ input = [stack |-> in.stack, memory |-> in.memory]
        /\ last = NoStep
        /\ spent = 0
        /\ mem = EmptyMemory
        /\ memLast = NoMemCall

(***************************************************************************)
(* The loops: main's driver loop (src/main.go 538-544) and the callee loop *)
(* of EVM.call (src/main.go 442-446).  A CALL is taken in two halves: the  *)
(* handler up to the construction of calleeEVM (in the step of the caller) *)
(* and, once the callee's loop has ended, the rest of the handler          *)
(* (CallReturn), followed by what the caller's loop does with its result.  *)
(***************************************************************************)
Top == frames[Len(frames)]

CodeOf(f) == heap[f.contract].Code

\* the loop condition evm.pc < uint64(len(contract.Code)), with no error yet
Running(f) == f.err = NoErr /\ f.pc < Len(CodeOf(f))

\* the arithmetic of the next opcode stays within the integers represented
InModelRange(f) ==
    LET op == CodeOf(f)[f.pc + 1]
        n  == Len(f.stack)
    IN (op \in {1, 2, 3} /\ n >= 2) =>
         LET a == Abs(f.stack[n - 1].Value)
             b == Abs(f.stack[n].Value)
         IN IF op = 2 THEN (IF a = 0 THEN TRUE ELSE b <= ValueCap \div a)
                      ELSE a + b <= ValueCap

\* the table of section 6, by which spent is kept
GasTable(op) ==
    CASE op \in {1, 3, 16, 17, 20, 96, 128, 144} -> 3
      [] op \in {2, 4} -> 5
      [] op = 84 -> 200
      [] op = 85 -> 20000
      [] op = 86 -> 8
      [] op = 87 -> 10
      [] op = 160 -> 375
      [] op = 240 -> 32000
      [] op = 241 -> 40
      [] OTHER -> 0

Exec(f) == ExecuteOpcode([f |-> f, heap |-> heap, contracts |-> contracts],
                         CodeOf(f)[f.pc + 1])

StepRecord(f, r) ==
    [kind  |-> "exec",
     op    |-> CodeOf(f)[f.pc + 1],
     depth |-> f.depth,
     err   |-> r.err,
     pre   |-> [f |-> f, heap |-> heap, contracts |-> contracts, depth |-> f.depth]]

\* what main's loop does after ExecuteOpcode returned: break, or evm.pc++
RootAfter(f, err) ==
    IF err # NoErr THEN [f EXCEPT !.err = err]
    ELSE [f EXCEPT !.pc = Add64(f.pc, 1)]

\* what the callee loop does after ExecuteOpcode returned: return err, or
\* go round again
CalleeAfter(f, err) ==
    IF err # NoErr THEN [f EXCEPT !.err = err] ELSE f

\* the effect of one turn of main's loop whose ExecuteOpcode call gave r
RootTurn(f, r) ==
    /\ frames' = IF r.callee # NoFrame THEN <<r.f, r.callee>>
                 ELSE <<RootAfter(r.f, r.err)>>
    /\ heap' = r.heap
    /\ contracts' = r.contracts
    /\ last' = StepRecord(f, r)
    /\ spent' = IF r.err = "out of gas" THEN spent
                ELSE spent + GasTable(CodeOf(f)[f.pc + 1])

RootStep ==
    /\ phase = "running"
    /\ Len(frames) = 1
    /\ Running(Top)
    /\ InModelRange(Top)
    /\ RootTurn(Top, Exec(Top))
    /\ UNCHANGED <<context, phase, input, memVars>>

\* mutant: a callee's fault empties the Storage of its contract
CalleeTurnUndo(f, r) ==
    /\ frames' = IF r.callee # NoFrame
                 THEN [frames EXCEPT ![Len(frames)] = r.f] \o <<r.callee>>
                 ELSE [frames EXCEPT ![Len(frames)] = CalleeAfter(r.f, r.err)]
    /\ heap' = IF r.err # NoErr
               THEN [r.heap EXCEPT ![f.contract].Storage = EmptyStorage]
               ELSE r.heap
    /\ contracts' = r.contracts
    /\ last' = StepRecord(f, r)

\* the effect of one turn of the callee loop whose ExecuteOpcode call gave r
CalleeTurn(f, r) ==
    /\ frames' = IF r.callee # NoFrame
                 THEN [frames EXCEPT ![Len(frames)] = r.f] \o <<r.callee>>
                 ELSE [frames EXCEPT ![Len(frames)] = CalleeAfter(r.f, r.err)]
    /\ heap' = r.heap
    /\ contracts' = r.contracts
    /\ last' = StepRecord(f, r)

CalleeStep ==
    /\ phase = "running"
    /\ Len(frames) > 1
    /\ Running(Top)
    /\ InModelRange(Top)
    /\ CalleeTurn(Top, Exec(Top))
    /\ UNCHANGED <<context, phase, input, spent, memVars>>

\* mutant: the callee's error is dropped and the return data copied anyway
CallTailSwallow(caller, callee) ==
    LET l == MemLoad(callee.memory, callee.retOffset, callee.retSize) IN
    IF l.err # NoErr THEN [f |-> caller, err |-> l.err]
    ELSE [f |-> [caller EXCEPT !.returnData = l.data], err |-> NoErr]

\* the rest of EVM.call once the callee loop has ended (src/main.go 442-455)
CallTail(caller, callee) ==
    IF callee.err # NoErr THEN [f |-> caller, err |-> callee.err]
    ELSE LET l == MemLoad(callee.memory, callee.retOffset, callee.retSize) IN
         IF l.err # NoErr THEN [f |-> caller, err |-> l.err]
         ELSE [f |-> [caller EXCEPT !.returnData = l.data], err |-> NoErr]

CallReturn ==
    /\ phase = "running"
    /\ Len(frames) > 1
    /\ ~Running(Top)
    /\ LET n      == Len(frames)
           caller == frames[n - 1]
           t      == CallTail(caller, Top)
       IN
        /\ frames' = Append(SubSeq(frames, 1, n - 2),
                            IF n = 2 THEN RootAfter(t.f, t.err)
                                     ELSE CalleeAfter(t.f, t.err))
        /\ last' = [kind  |-> "return",
                    op    |-> 241,
                    depth |-> caller.depth,
                    err   |-> t.err,
                    pre   |-> [f |-> caller, callee |-> Top, heap |-> heap,
                               contracts |-> contracts, depth |-> caller.depth]]
    /\ UNCHANGED <<heap, contracts, context, phase, input, spent, memVars>>

\* main's loop has ended: "EVM Execution Complete" (src/main.go 546)
Finish ==
    /\ phase = "running"
    /\ Len(frames) = 1
    /\ ~Running(Top)
    /\ phase' = "complete"
    /\ UNCHANGED <<frames, heap, contracts, context, input, last, spent, memVars>>

Next == RootStep \/ CalleeStep \/ CallReturn \/ Finish

Spec == Init /\ [][Next]_vars

(***************************************************************************)
(* The Memory harness: a Memory, as NewEVM makes it, on which store and    *)
(* load (src/main.go 110-129) are called with offsets, sizes and byte      *)
(* strings from bounded sets.  A panic ends the process.                   *)
(***************************************************************************)
HarnessOffsets == {0, 1, 3, MaxMemorySize - 1, MaxMemorySize, U64 - 2, U64 - 1}

HarnessSizes == {0, 1, 2, U64 - 1}

HarnessBytes == UNION {[1 .. n -> {0, 7}] : n \in 0 .. MaxStoreLen}

InitMem ==
    /\ frames = <<>>
    /\ heap = <<>>
    /\ contracts = <<>>
    /\ context = [GasLimit |-> 0]
    /\ phase = "complete"
    /\ input = [stack |-> <<>>, memory |-> EmptyMemory]
    /\ last = NoStep
    /\ spent = 0
    /\ mem = EmptyMemory
    /\ memLast = NoMemCall

Stored(offset, bytes, r) ==
    /\ mem' = r.mem
    /\ memLast' = [op |-> "store", offset |-> offset, bytes |-> bytes,
                   size |-> Len(bytes), err |-> r.err, data |-> <<>>,
                   before |-> mem]

StoreCall ==
    /\ memLast.err # Panic
    /\ \E offset \in HarnessOffsets, bytes \in HarnessBytes :
          Stored(offset, bytes, MemStore(mem, offset, bytes))
    /\ UNCHANGED evmVars

Loaded(offset, size, r) ==
    /\ mem' = mem
    /\ memLast' = [op |-> "load", offset |-> offset, bytes |-> <<>>,
                   size |-> size, err |-> r.err, data |-> r.data,
                   before |-> mem]

LoadCall ==
    /\ memLast.err # Panic
    /\ \E offset \in HarnessOffsets, size \in HarnessSizes :
          Loaded(offset, size, MemLoad(mem, offset, size))
    /\ UNCHANGED evmVars

NextMem == StoreCall \/ LoadCall

SpecMem == InitMem /\ [][NextMem]_vars

(***************************************************************************)
(* Properties.  last.pre is the state the step just taken started from;    *)
(* the frame that took it is frames[last.depth + 1].                       *)
(***************************************************************************)
PreFrame == last.pre.f

PostFrame == frames[last.depth + 1]

Executed(op) == last.kind = "exec" /\ last.op = op

\* operands popped and results pushed by a handler that returns no error
Pops(op) ==
    CASE op \in {1, 2, 3, 4, 16, 17, 20, 85, 87, 160, 243, 253} -> 2
      [] op \in {84, 86} -> 1
      [] op = 240 -> 3
      [] op = 241 -> 7
      [] OTHER -> 0

Pushes(op) == IF op \in {1, 2, 3, 4, 16, 17, 20, 84, 96, 128, 240} THEN 1 ELSE 0

\* the handler of last.op got past useGas and its pops
PastPops == PreFrame.gas >= GasTable(last.op) /\ Len(PreFrame.stack) >= Pops(last.op)

\* C1: in every frame the stack holds at most 1024 values; a push attempted
\* on a stack of 1024 (by PUSH1 or DUP1, the handlers that push without
\* popping) fails with "stack overflow" and leaves the stack as it was; no
\* other handler overflows; and a handler that succeeds leaves the length at
\* the old length minus its pops plus one for each push.
C1_StackBounded ==
    /\ \A i \in 1 .. Len(frames) : Len(frames[i].stack) <= MaxStackDepth
    /\ last.kind = "exec" =>
         /\ ( /\ last.op \in {96, 128}
              /\ Len(PreFrame.stack) = MaxStackDepth
              /\ PreFrame.gas >= 3
              /\ last.op = 96 => PreFrame.pc + 2 <= Len(CodeOf(PreFrame)) )
            => (last.err = "stack overflow" /\ PostFrame.stack = PreFrame.stack)
         /\ last.err = "stack overflow"
            => ( /\ last.op \in {96, 128}
                 /\ Len(PreFrame.stack) = MaxStackDepth
                 /\ PostFrame.stack = PreFrame.stack )
         /\ last.err = NoErr
            => Len(PostFrame.stack)
                 = Len(PreFrame.stack) - Pops(last.op) + Pushes(last.op)

\* C1 witness: the stack-filling program, started on an empty stack, has
\* pushed 1024 values and its next push was refused.
C1_Witness ==
    /\ last.kind = "exec"
    /\ last.err = "stack overflow"
    /\ input.stack = <<>>
    /\ Len(PostFrame.stack) = MaxStackDepth
    /\ Len(PreFrame.stack) = MaxStackDepth

\* C2: an opcode whose table cost exceeds the frame's gas fails with "out of
\* gas" and changes nothing (gas, stack, memory, pc, logs, return data,
\* storage, registry, no callee); otherwise exactly the table cost is
\* deducted, whatever the handler does next; gas is never negative and a
\* frame's gas is untouched by the return of its callee.
C2_GasCheckedFirst ==
    /\ \A i \in 1 .. Len(frames) : frames[i].gas >= 0
    /\ last.kind = "exec" =>
         IF PreFrame.gas < GasTable(last.op)
         THEN /\ last.err = "out of gas"
              /\ PostFrame = [PreFrame EXCEPT !.err = "out of gas"]
              /\ heap = last.pre.heap
              /\ contracts = last.pre.contracts
              /\ Len(frames) = last.depth + 1
         ELSE /\ last.err # "out of gas"
              /\ PostFrame.gas = PreFrame.gas - GasTable(last.op)
    /\ last.kind = "return" => PostFrame.gas = PreFrame.gas

\* C2 witness: a frame with gas 2 and two operands on its stack was refused
\* an opcode costing 3.
C2_Witness ==
    /\ last.kind = "exec"
    /\ last.err = "out of gas"
    /\ PreFrame.gas = 2
    /\ GasTable(last.op) = 3
    /\ Len(PreFrame.stack) = 2

\* C3: when main's loop has ended, the gas the root frame consumed is the sum
\* of the table costs of the opcodes it executed (spent); the sample program
\* PUSH1 10, PUSH1 20, ADD, STOP, started on an empty stack with gas for it,
\* ends on STOP with stack [30] and 9 gas consumed.
C3_GasConsumed ==
    phase = "complete" /\ Len(frames) = 1 =>
        /\ context.GasLimit - frames[1].gas = spent
        /\ (heap[1].Code = MainCode /\ input.stack = <<>> /\ context.GasLimit >= 9)
           => ( /\ frames[1].err = "STOP"
                /\ frames[1].stack = <<U256(30)>>
                /\ context.GasLimit - frames[1].gas = 9 )

\* C3 witness: the sample program has run to its STOP.
C3_Witness ==
    /\ phase = "complete"
    /\ Len(frames) = 1
    /\ heap[1].Code = MainCode
    /\ frames[1].err = "STOP"
    /\ frames[1].stack = <<U256(30)>>
    /\ spent = 9

\* C4: STOP, RETURN and REVERT are terminal: the loop of a frame that has
\* executed STOP, a RETURN that set return_data, or a REVERT that set
\* return_data has stopped.
C4_HaltsAreTerminal ==
    ( \/ Executed(0)
      \/ Executed(243) /\ last.err = NoErr
      \/ Executed(253) /\ last.err = "revert with data" )
    => ~Running(PostFrame)

\* the callee of the call just returned from ended on STOP or by running off
\* the end of its code, and the range to copy lies within its memory
CalleeHalted ==
    /\ last.kind = "return"
    /\ last.pre.callee.err \in {NoErr, "STOP"}
    /\ last.pre.callee.retOffset + last.pre.callee.retSize
         <= last.pre.callee.memory.len

\* C5: when the callee of a CALL ends in Halted(Stop) or Halted(Return), the
\* CALL succeeds in the caller: the caller's return_data is the ret_size
\* bytes at ret_offset of the callee's memory, no error is propagated and
\* the caller goes on.
C5_CallSucceedsOnHalt ==
    CalleeHalted =>
        /\ last.err = NoErr
        /\ PostFrame.err = NoErr
        /\ PostFrame.returnData
             = Slice(last.pre.callee.memory, last.pre.callee.retOffset,
                     last.pre.callee.retOffset + last.pre.callee.retSize)

\* the CALL just executed had gas and seven operands, and its address operand
\* names no contract of the registry
CallToAbsent ==
    /\ Executed(241)
    /\ PastPops
    /\ CopyInto(AddressLen,
                BigBytes(PreFrame.stack[Len(PreFrame.stack) - 5].Value))
         \notin DOMAIN last.pre.contracts

\* the args_offset and args_size operands of the CALL just executed, as uint64
ArgsOffset == Uint64(PreFrame.stack[Len(PreFrame.stack) - 1].Value)

ArgsSize == Uint64(PreFrame.stack[Len(PreFrame.stack)].Value)

\* C6 as stated: a CALL to an address absent from the registry fails with
\* "contract not found" for every value of the other operands, and no callee
\* frame is created.
C6_AbsentAlwaysNotFound ==
    CallToAbsent => (last.err = "contract not found" /\ Len(frames) = last.depth + 1)

\* C6 amended: a CALL to an absent address creates no callee frame; it fails
\* with "contract not found" when args_offset + args_size lies within the
\* caller's memory, and otherwise it fails on the args load, which comes
\* first (out of bounds, or a panic when the 64-bit sum wraps).
C6_AbsentAfterArgsLoad ==
    CallToAbsent =>
        /\ Len(frames) = last.depth + 1
        /\ PostFrame.gas = PreFrame.gas - 40
        /\ IF ArgsOffset + ArgsSize <= PreFrame.memory.len
           THEN last.err = "contract not found"
           ELSE last.err \in {"memory access out of bounds", Panic}

\* C6 witness: a CALL to an absent address whose args range was loaded from a
\* non-empty memory failed with "contract not found".
C6_Witness ==
    /\ CallToAbsent
    /\ ArgsSize = 1
    /\ PreFrame.memory.len = 3
    /\ last.err = "contract not found"

\* C7: in every frame, after a JUMP to d, or a JUMPI to d whose condition is
\* not zero, the program counter the loop fetches from next is d; after a
\* JUMPI whose condition is zero it is the old one plus one.
C7_JumpLandsOnDestination ==
    (last.kind = "exec" /\ last.op \in {86, 87} /\ last.err = NoErr) =>
        LET n == Len(PreFrame.stack) IN
        IF last.op = 86
        THEN PostFrame.pc = PreFrame.stack[n].Value
        ELSE IF PreFrame.stack[n].Value # 0
             THEN PostFrame.pc = PreFrame.stack[n - 1].Value
             ELSE PostFrame.pc = PreFrame.pc + 1

\* the indices a store of memLast.bytes at memLast.offset writes
Written == {memLast.offset + i - 1 : i \in 1 .. Len(memLast.bytes)}

\* C8: after an accepted store(offset, bytes), load(offset, len(bytes))
\* returns bytes; a byte of the region added by growth that the store did not
\* write is zero; a byte that existed before and was not written keeps its
\* value; and no call makes the memory shorter.
C8_StoreThenLoad ==
    /\ mem.len >= memLast.before.len
    /\ (memLast.op = "store" /\ memLast.err = NoErr) =>
         /\ MemLoad(mem, memLast.offset, Len(memLast.bytes))
              = [data |-> memLast.bytes, err |-> NoErr]
         /\ mem.len = Max(memLast.before.len, memLast.offset + Len(memLast.bytes))
         /\ \A i \in DOMAIN mem.nz \cup DOMAIN memLast.before.nz :
              /\ i < mem.len
              /\ (i >= memLast.before.len /\ i \notin Written) => ByteAt(mem, i) = 0
              /\ (i < memLast.before.len /\ i \notin Written)
                   => ByteAt(mem, i) = ByteAt(memLast.before, i)

\* C8 witness: a store of two bytes beyond the end of a memory that already
\* held a nonzero byte was accepted, leaving a gap.
C8_Witness ==
    /\ memLast.op = "store"
    /\ memLast.err = NoErr
    /\ memLast.bytes = <<7, 7>>
    /\ memLast.before.len > 0
    /\ memLast.offset > memLast.before.len
    /\ DOMAIN memLast.before.nz # {}

\* C9: store(offset, bytes) fails with "memory size exceeded" and leaves the
\* memory unchanged whenever offset + len(bytes), as a number, exceeds
\* MaxMemorySize, also when the sum passes the largest uint64; so the memory
\* is never longer than MaxMemorySize.
C9_StoreRejectsBeyondLimit ==
    /\ mem.len <= MaxMemorySize
    /\ (memLast.op = "store" /\ memLast.offset + Len(memLast.bytes) > MaxMemorySize)
       => (memLast.err = "memory size exceeded" /\ mem = memLast.before)

\* the offset and size operands of LOG0, CREATE, CALL, RETURN and REVERT, as
\* uint64: the handlers pop the size first
LoadOffset == Uint64(PreFrame.stack[Len(PreFrame.stack) - 1].Value)

LoadSize == Uint64(PreFrame.stack[Len(PreFrame.stack)].Value)

\* C10: a load reached through LOG0, CREATE, CALL, RETURN or REVERT whose
\* offset + size, as a number, exceeds the memory length fails with "memory
\* access out of bounds", also when the 64-bit sum wraps; and no such opcode
\* changes the memory.
C10_LoadRejectsBeyondLength ==
    (last.kind = "exec" /\ last.op \in {160, 240, 241, 243, 253} /\ PastPops) =>
        /\ PostFrame.memory = PreFrame.memory
        /\ LoadOffset + LoadSize > PreFrame.memory.len
           => last.err = "memory access out of bounds"

\* the Storage of the contract the frame of the last step runs, before it
PreStorage == last.pre.heap[PreFrame.contract].Storage

\* C11: SLOAD of k pushes the value Storage holds for k, and the zero Value
\* if it holds none; Storage holds nothing at the start and is changed by
\* nothing but a successful SSTORE, which sets the slot of its key to its
\* value and leaves every other slot of the contract and the Storage of
\* every other contract as they were.
C11_StorageReadsLastWrite ==
    /\ last.kind = "init" => \A i \in DOMAIN heap : heap[i].Storage = EmptyStorage
    /\ last.kind = "return" => heap = last.pre.heap
    /\ last.kind = "exec" =>
         LET n == Len(PreFrame.stack) IN
         /\ (last.op = 84 /\ last.err = NoErr) =>
               LET k == KeyString(PreFrame.stack[n].Value) IN
               PostFrame.stack[n] = IF k \in DOMAIN PreStorage THEN PreStorage[k]
                                                               ELSE U256(0)
         /\ IF last.op = 85 /\ last.err = NoErr
            THEN LET k == KeyString(PreFrame.stack[n - 1].Value)
                     s == heap[PreFrame.contract].Storage
                 IN /\ DOMAIN s = DOMAIN PreStorage \cup {k}
                    /\ s[k] = PreFrame.stack[n]
                    /\ \A j \in DOMAIN PreStorage : j # k => s[j] = PreStorage[j]
                    /\ \A i \in DOMAIN heap :
                          i # PreFrame.contract
                            => heap[i].Storage = last.pre.heap[i].Storage
            ELSE \A i \in DOMAIN last.pre.heap :
                    heap[i].Storage = last.pre.heap[i].Storage

\* C11 witness: key 7, written twice (9, then 4) with another key written in
\* between, is read back as 4.
C11_Witness ==
    /\ Executed(84)
    /\ last.err = NoErr
    /\ PreStorage = ("7" :> U256(4)) @@ ("8" :> U256(5))
    /\ PostFrame.stack[Len(PostFrame.stack)] = U256(4)

\* C11 witness in a callee: the callee's SSTORE has written its own contract
\* and left the slot of the caller's contract alone.
C11_CalleeWitness ==
    /\ Executed(85)
    /\ last.err = NoErr
    /\ last.depth = 1
    /\ heap[1].Storage = ("7" :> U256(9))
    /\ heap[2].Storage = ("96" :> U256(85))

\* the two operands of a binary opcode: b on top, a below it
OperandA == PreFrame.stack[Len(PreFrame.stack) - 1].Value

OperandB == PreFrame.stack[Len(PreFrame.stack)].Value

\* v is what the opcode makes of a (deeper) and b (top): sum, product,
\* difference, the quotient of the division whose remainder is not negative
\* (0 for a zero divisor), or 1 or 0 for a comparison that holds or not
IsResult(op, a, b, v) ==
    CASE op = 1  -> v = a + b
      [] op = 2  -> v = a * b
      [] op = 3  -> v = a - b
      [] op = 4  -> IF b = 0 THEN v = 0
                    ELSE a - b * v >= 0 /\ a - b * v < Abs(b)
      [] op = 16 -> v = IF a < b THEN 1 ELSE 0
      [] op = 17 -> v = IF a > b THEN 1 ELSE 0
      [] op = 20 -> v = IF a = b THEN 1 ELSE 0

\* C12: ADD, MUL, SUB, DIV, LT, GT and EQ, executed with two values on the
\* stack and gas for their cost, do not fail; they replace the top two
\* values, b on top and a below, by one Uint256 Value: op(a, b), 1 or 0 for
\* a comparison, and 0 for a DIV by zero.
C12_BinaryOperations ==
    ( /\ last.kind = "exec"
      /\ last.op \in {1, 2, 3, 4, 16, 17, 20}
      /\ Len(PreFrame.stack) >= 2
      /\ PreFrame.gas >= GasTable(last.op) )
    => LET n == Len(PreFrame.stack) IN
       /\ last.err = NoErr
       /\ Len(PostFrame.stack) = n - 1
       /\ SubSeq(PostFrame.stack, 1, n - 2) = SubSeq(PreFrame.stack, 1, n - 2)
       /\ PostFrame.stack[n - 1].Type = "Uint256"
       /\ IsResult(last.op, OperandA, OperandB, PostFrame.stack[n - 1].Value)

\* C12 witness: a DIV of 2 by 0 has pushed 0.
C12_Witness ==
    /\ Executed(4)
    /\ Len(PreFrame.stack) = 2
    /\ OperandA = 2
    /\ OperandB = 0
    /\ last.err = NoErr
    /\ PostFrame.stack = <<U256(0)>>

\* C12 witness with a negative operand: a DIV of -3 by 2 has pushed -2.
C12_NegativeWitness ==
    /\ Executed(4)
    /\ last.err = NoErr
    /\ Len(PreFrame.stack) >= 2
    /\ OperandA = -3
    /\ OperandB = 2
    /\ PostFrame.stack[Len(PostFrame.stack)].Value = -2

\* the step just taken was a JUMP, or a JUMPI whose condition was not zero
TakenJump ==
    \/ last.op = 86
    \/ last.op = 87 /\ Len(PreFrame.stack) >= 1
                    /\ PreFrame.stack[Len(PreFrame.stack)].Value # 0

\* C13: in every frame, root or made by CALL, an opcode other than a taken
\* jump that succeeds at program counter p leaves the loop fetching next at
\* p + 1, or at p + 2 for PUSH1 (for a CALL, once the callee has ended and
\* the rest of the handler has succeeded); and a frame whose program counter
\* is at or past the end of its code has stopped without an error.
C13_PcAdvancesByWidth ==
    /\ ( /\ last.kind = "exec"
         /\ last.err = NoErr
         /\ ~TakenJump
         /\ Len(frames) = last.depth + 1 )
       => PostFrame.pc = PreFrame.pc + (IF last.op = 96 THEN 2 ELSE 1)
    /\ (last.kind = "return" /\ last.err = NoErr)
       => PostFrame.pc = PreFrame.pc + 1
    /\ \A i \in 1 .. Len(frames) :
         (frames[i].err = NoErr /\ frames[i].pc >= Len(CodeOf(frames[i])))
           => ~Running(frames[i])

\* the CREATE just executed had gas and three operands
CreateRan == Executed(240) /\ PastPops

\* the CREATE just executed behaved as memory.load(offset, size) decides: the
\* error of a failed load and nothing registered, or else a contract with
\* the loaded code appended and registered at the derived address
CreatedFrom(offset, size) ==
    LET l == MemLoad(PreFrame.memory, offset, size) IN
    IF l.err # NoErr
    THEN /\ last.err = l.err
         /\ heap = last.pre.heap
         /\ contracts = last.pre.contracts
    ELSE /\ last.err = NoErr
         /\ Len(heap) = Len(last.pre.heap) + 1
         /\ heap[Len(heap)].Code = l.data
         /\ contracts[createAddress(ZeroAddress, 0)] = Len(heap)

\* C14 as stated: CREATE takes the top of the stack as value, the next
\* element as offset and the third as size, and the code of the new contract
\* is memory.load(offset, size).
C14_CreatePopsValueFirst ==
    CreateRan =>
        LET n == Len(PreFrame.stack) IN
        CreatedFrom(Uint64(PreFrame.stack[n - 1].Value),
                    Uint64(PreFrame.stack[n - 2].Value))

\* C14 amended: CREATE takes the top of the stack as size, the next element
\* as offset and the third as value, and the code of the new contract is
\* memory.load(offset, size).
C14_CreatePopsSizeFirst ==
    CreateRan =>
        LET n == Len(PreFrame.stack) IN
        CreatedFrom(Uint64(PreFrame.stack[n - 1].Value),
                    Uint64(PreFrame.stack[n].Value))

\* C14 witness: CREATE on the stack [0, 1, 2] over the memory 7, 0, 9 has
\* registered a contract whose code is the two bytes at offset 1.
C14_Witness ==
    /\ CreateRan
    /\ last.err = NoErr
    /\ PreFrame.stack = <<U256(0), U256(1), U256(2)>>
    /\ PreFrame.memory = Mem3
    /\ heap[Len(heap)].Code = <<0, 9>>

\* the magnitude of v fits an EVM word
FitsWord(v) == Abs(v.Value) < 2 ^ Uint256Bits

\* C15: every Value on the stack of any frame and in the Storage of any
\* contract has a magnitude that fits an EVM word, results of ADD, MUL and
\* SUB included.
C15_ValuesFitWord ==
    /\ \A i \in 1 .. Len(frames) :
         \A j \in 1 .. Len(frames[i].stack) : FitsWord(frames[i].stack[j])
    /\ \A i \in 1 .. Len(heap) :
         \A k \in DOMAIN heap[i].Storage : FitsWord(heap[i].Storage[k])

\* C16: a contract of the registry is never deleted: whatever step is taken,
\* a later CREATE included, every address registered before it still names
\* the same contract, with the same code and with every slot it had.
C16_ContractNeverDeleted ==
    last.kind \in {"exec", "return"} =>
        \A a \in DOMAIN last.pre.contracts :
            /\ a \in DOMAIN contracts
            /\ contracts[a] = last.pre.contracts[a]
            /\ heap[contracts[a]].Code = last.pre.heap[last.pre.contracts[a]].Code
            /\ DOMAIN last.pre.heap[last.pre.contracts[a]].Storage
                  \subseteq DOMAIN heap[contracts[a]].Storage

\* some frame has ended on an error: a fault, a REVERT or a STOP
SomeFrameEnded(fs) == \E i \in 1 .. Len(fs) : fs[i].err # NoErr

\* C17: there is no rollback: a step on which a frame faults or reverts, the
\* return of that fault to the caller and the end of the execution leave
\* every registered contract and every slot of every Storage as the earlier
\* steps wrote them.
C17_NoRollback ==
    [][SomeFrameEnded(frames') => (heap' = heap /\ contracts' = contracts)]_vars

\* C17 witness: the execution is over, the callee having run out of gas
\* after its SSTORE and the caller having faulted with it; the slots both wrote and the registered
\* contract are still there.
C17_Witness ==
    /\ phase = "complete"
    /\ frames[1].err = "out of gas"
    /\ last.kind = "return"
    /\ heap[1].Storage = ("7" :> U256(9))
    /\ DOMAIN contracts = {createAddress(ZeroAddress, 0)}
    /\ heap[contracts[createAddress(ZeroAddress, 0)]].Storage = ("96" :> U256(85))

\* the callee of the call just returned from ended on a fault
CalleeFaulted ==
    /\ last.kind = "return"
    /\ last.pre.callee.err \notin {NoErr, "STOP", "revert with data"}

\* C18: a fault of a callee frame is the error the CALL returns in the
\* caller, unchanged; the caller's loop ends on it, so the caller executes
\* nothing more, and the caller is otherwise as it was, its return_data
\* included; a caller that is itself a callee hands the fault on the same
\* way, and the root, once it has it, stops.
C18_FaultPropagates ==
    /\ CalleeFaulted =>
         /\ last.err = last.pre.callee.err
         /\ PostFrame = [PreFrame EXCEPT !.err = last.pre.callee.err]
         /\ ~Running(PostFrame)
         /\ Len(frames) = last.depth + 1
    /\ \A i \in 1 .. Len(frames) - 1 : frames[i].err = NoErr
    /\ (phase = "complete" /\ last.kind = "return") => frames[1].err = last.err

\* C18 witness: the callee PUSH1 5 faulted on the unknown opcode 5 and the
\* root, which had called it, has ended on that fault.
C18_Witness ==
    /\ CalleeFaulted
    /\ last.pre.callee.err = "unknown opcode"
    /\ last.depth = 0
    /\ frames[1].err = "unknown opcode"
    /\ phase = "complete"

\* the frames below the running one are the same after the step
CallersKept(n) == SubSeq(frames', 1, n) = SubSeq(frames, 1, n)

\* a step that entered a callee: the new frame is fresh, one deeper, runs the
\* contract the shared registry holds for the address operand and has gas
\* calleeGas; the caller has lost its seven operands and 40 gas, nothing else
EntersCallee(calleeGas) ==
    LET caller == frames[Len(frames)]
        n      == Len(caller.stack)
        callee == frames'[Len(frames')]
    IN /\ callee.stack = <<>>
       /\ callee.memory = EmptyMemory
       /\ callee.pc = 0
       /\ callee.gas = calleeGas
       /\ callee.depth = caller.depth + 1
       /\ callee.contract
            = contracts[CopyInto(AddressLen, BigBytes(caller.stack[n - 5].Value))]
       /\ frames'[Len(frames)] = [caller EXCEPT !.stack = SubSeq(caller.stack, 1, n - 7),
                                                !.gas = caller.gas - 40]
       /\ CallersKept(Len(frames) - 1)
       /\ <<heap, contracts, context>>' = <<heap, contracts, context>>

\* a step that left a callee: the caller has the stack, memory and gas the
\* CALL handler left it with, and its program counter too, but for the
\* increment of main's loop after a CALL that returned no error
LeavesCallee ==
    LET caller == frames[Len(frames) - 1]
        back   == frames'[Len(frames')]
    IN /\ back.stack = caller.stack
       /\ back.memory = caller.memory
       /\ back.gas = caller.gas
       /\ back.pc = IF back.err = NoErr /\ back.depth = 0 THEN caller.pc + 1
                                                         ELSE caller.pc
       /\ CallersKept(Len(frames) - 2)

\* the gasLimit operand of the CALL the running frame is about to execute
GasLimitOperand ==
    frames[Len(frames)].stack[Len(frames[Len(frames)].stack) - 6].Value

\* what C19 says of one step, the callee's gas being the gasLimit operand as
\* it is, or converted to uint64
FramesIsolated(converted) ==
    /\ Len(frames') = Len(frames) + 1
         => EntersCallee(IF converted THEN Uint64(GasLimitOperand)
                                      ELSE GasLimitOperand)
    /\ (Len(frames') = Len(frames) /\ Len(frames) > 1)
         => CallersKept(Len(frames) - 1)
    /\ Len(frames') = Len(frames) - 1 => LeavesCallee

\* C19 as stated: a frame made by CALL starts with an empty stack, an empty
\* memory, program counter 0, gas equal to the gas_limit operand and the
\* caller's depth plus one, on the shared registry and context; while it
\* runs and after it ends the caller's stack, memory and program counter are
\* as the CALL handler left them, and the caller's gas is 40 less.
C19_CalleeGasIsOperand == [][FramesIsolated(FALSE)]_vars

\* C19 amended: the same, the callee's gas being the gas_limit operand
\* converted to uint64 (the low 64 bits of its magnitude).
C19_CalleeGasIsUint64 == [][FramesIsolated(TRUE)]_vars

\* C19 witness: a callee given 100 gas has used 11 of it and ended; the
\* root, which called it from a memory of three bytes, has its memory, an
\* empty stack and 40 gas less.
C19_Witness ==
    /\ last.kind = "return"
    /\ last.err = NoErr
    /\ last.pre.callee.gas = 89
    /\ PostFrame.memory = Mem3
    /\ PostFrame.stack = <<>>
    /\ PostFrame.gas = MainGasLimit - 40

\* what is left of a frame's run: its gas, whether a callee runs above it,
\* whether its loop is still running, the code beyond its program counter and
\* the length of its stack
CodeLeft(f) == IF f.pc < Len(CodeOf(f)) THEN Len(CodeOf(f)) - f.pc ELSE 0

FrameMeasure(f, above) ==
    <<f.gas, above, IF Running(f) THEN 1 ELSE 0, CodeLeft(f), Len(f.stack)>>

RECURSIVE MeasureFrom(_)
MeasureFrom(i) ==
    IF i > Len(frames) THEN <<>>
    ELSE FrameMeasure(frames[i], IF i < Len(frames) THEN 1 ELSE 0)
           \o MeasureFrom(i + 1)

\* the variant of an execution: main's loop not yet left, then what is left
\* of each frame, the root first
Measure == <<IF phase = "running" THEN 1 ELSE 0>> \o MeasureFrom(1)

\* a comes before b in the lexicographic order of sequences of naturals
LexLess(a, b) ==
    \E k \in 1 .. Len(a) :
        /\ k <= Len(b)
        /\ a[k] < b[k]
        /\ \A j \in 1 .. k - 1 : a[j] = b[j]

\* an execution that is not over can take a step
CanStep ==
    phase = "running" =>
        /\ Len(frames) >= 1
        /\ Running(Top) => InModelRange(Top)
        /\ \A i \in 1 .. Len(frames) : frames[i].gas >= 0

\* C20: every execution terminates: whatever the bytecode, the registry and
\* the gas limit, an execution that is not over can take a step, and every
\* step of the root frame or of a nested one leaves less to do (gas first,
\* then the callee above, the running loop, the code left and the stack of
\* each frame from the root up), so that no execution goes on for ever.
C20_Terminates == CanStep /\ [][CanStep' /\ LexLess(Measure', Measure)]_vars

\* C20 witness: the loop PUSH1 0; JUMP, started with 50 gas, has gone round
\* four times and ended out of gas.
C20_Witness ==
    /\ phase = "complete"
    /\ heap[1].Code = LoopCode
    /\ frames[1].err = "out of gas"
    /\ frames[1].gas = 3
    /\ spent = 47

\* C20 witness in a callee: the callee PUSH1 128; DUP1 ..., given 100 gas,
\* repeated DUP1 until its gas was gone, and the execution is over.
C20_CalleeWitness ==
    /\ phase = "complete"
    /\ last.kind = "return"
    /\ last.pre.callee.err = "out of gas"
    /\ last.pre.callee.gas = 1
    /\ Len(last.pre.callee.stack) = 33

=============================================================================
